---- MODULE Spec2Model ----
(***************************************************************************)
(* Model of the HTTP request client of the Intervals.icu MCP server        *)
(* (src/src/intervals_mcp_server/api/client.py): the shared httpx client   *)
(* handle and its lazy (re)creation, the request pipeline of               *)
(* make_intervals_request, the response parsing and error normalisation,   *)
(* and the shutdown teardown of setup_api_client; and of the event tools   *)
(* that run on top of it (src/src/intervals_mcp_server/tools/events.py):   *)
(* get_events, get_event_by_id and the workout type inference.             *)
(*                                                                         *)
(* Strings that the code builds or inspects (messages, response bodies)    *)
(* are sequences of lexemes, so that "starts with", "mentions" and "is     *)
(* empty" are computed and not assumed.  Python values are tagged records: *)
(* a dict is [type |-> "dict", items |-> function], a list is              *)
(* [type |-> "list", elems |-> sequence].                                  *)
(***************************************************************************)
EXTENDS Integers, Sequences, FiniteSets, TLC

\* ------------------------------------------------------------------ bounds
\* Number of client handles that can be allocated in one behaviour.
MaxHandles == 3
\* Number of times the lifespan teardown (the finally block) may run.
MaxTeardowns == 2

\* ------------------------------------------------------- python primitives
\* Python's None for optional strings (no key is ever spelled like this).
None == "None"

\* Python truthiness of an optional string: None and "" are falsy.
Truthy(s) == s /= None /\ s /= ""

PyDict(f) == [type |-> "dict", items |-> f]
PyList(s) == [type |-> "list", elems |-> s]
PyScalar(tok) == [type |-> "scalar", tok |-> tok]

\* the lexemes of s occur contiguously in t.
Contains(t, s) ==
    \E i \in 0..(Len(t) - Len(s)) : SubSeq(t, i + 1, i + Len(s)) = s

\* --------------------------------------------------------------- json.loads
\* Lexemes of the response bodies: punctuation, member names and scalars.
KeyTokens == {"id", "name", "error"}
ScalarTokens == {"1", "true", "\"Test Event\"", "\"Race\""}

ParseFail == [ok |-> FALSE, next |-> 0]

RECURSIVE ParseValue(_, _)
RECURSIVE ParseMembers(_, _, _, _)
RECURSIVE ParseElements(_, _, _, _)

\* members of an object after "{": acc is the dict built so far, first tells
\* whether "}" may close the object here (no member read yet).
ParseMembers(toks, i, acc, first) ==
    IF i > Len(toks) THEN ParseFail
    ELSE IF first /\ toks[i] = "}"
    THEN [ok |-> TRUE, val |-> PyDict(acc), next |-> i + 1]
    ELSE IF toks[i] \in KeyTokens /\ i + 1 <= Len(toks) /\ toks[i + 1] = ":"
    THEN LET v == ParseValue(toks, i + 2) IN
         IF ~v.ok THEN ParseFail
         ELSE LET acc2 == [k \in (DOMAIN acc) \cup {toks[i]} |->
                              IF k = toks[i] THEN v.val ELSE acc[k]]
                  j == v.next
              IN IF j > Len(toks) THEN ParseFail
                 ELSE IF toks[j] = "}"
                 THEN [ok |-> TRUE, val |-> PyDict(acc2), next |-> j + 1]
                 ELSE IF toks[j] = ","
                 THEN ParseMembers(toks, j + 1, acc2, FALSE)
                 ELSE ParseFail
    ELSE ParseFail

\* elements of an array after "[".
ParseElements(toks, i, acc, first) ==
    IF i > Len(toks) THEN ParseFail
    ELSE IF first /\ toks[i] = "]"
    THEN [ok |-> TRUE, val |-> PyList(acc), next |-> i + 1]
    ELSE LET v == ParseValue(toks, i) IN
         IF ~v.ok THEN ParseFail
         ELSE LET acc2 == Append(acc, v.val)
                  j == v.next
              IN IF j > Len(toks) THEN ParseFail
                 ELSE IF toks[j] = "]"
                 THEN [ok |-> TRUE, val |-> PyList(acc2), next |-> j + 1]
                 ELSE IF toks[j] = ","
                 THEN ParseElements(toks, j + 1, acc2, FALSE)
                 ELSE ParseFail

ParseValue(toks, i) ==
    IF i > Len(toks) THEN ParseFail
    ELSE IF toks[i] = "{" THEN ParseMembers(toks, i + 1, << >>, TRUE)
    ELSE IF toks[i] = "[" THEN ParseElements(toks, i + 1, << >>, TRUE)
    ELSE IF toks[i] \in ScalarTokens
    THEN [ok |-> TRUE, val |-> PyScalar(toks[i]), next |-> i + 1]
    ELSE ParseFail

\* json.loads: the whole text must be one JSON value; ok = FALSE stands for
\* JSONDecodeError.
JsonLoads(toks) ==
    LET r == ParseValue(toks, 1) IN
    IF r.ok /\ r.next = Len(toks) + 1
    THEN [ok |-> TRUE, val |-> r.val]
    ELSE [ok |-> FALSE]

\* ------------------------------------------------------------ http statuses
\* The members of http.HTTPStatus: HTTPStatus(code) raises ValueError for
\* every other integer.
HTTPStatusCodes ==
    {100, 101, 102, 103, 200, 201, 202, 203, 204, 205, 206, 207, 208, 226,
     300, 301, 302, 303, 304, 305, 307, 308,
     400, 401, 402, 403, 404, 405, 406, 407, 408, 409, 410, 411, 412, 413,
     414, 415, 416, 417, 418, 421, 422, 423, 424, 425, 426, 428, 429, 431,
     451, 500, 501, 502, 503, 504, 505, 506, 507, 508, 510, 511}

\* httpx.Response.is_success, the test of raise_for_status.
IsSuccess(status_code) == status_code >= 200 /\ status_code <= 299

\* The error_messages table of _get_error_message.
error_messages ==
    [c \in {401, 403, 404, 422, 429, 500, 503} |->
        CASE c = 401 -> <<"401", "Unauthorized", ":", "Please", "check",
                          "your", "API", "key", ".">>
          [] c = 403 -> <<"403", "Forbidden", ":", "You", "may", "not", "have",
                          "permission", "to", "access", "this", "resource",
                          ".">>
          [] c = 404 -> <<"404", "Not", "Found", ":", "The", "requested",
                          "endpoint", "or", "ID", "doesn't", "exist", ".">>
          [] c = 422 -> <<"422", "Unprocessable", "Entity", ":", "The",
                          "server", "couldn't", "process", "the", "request",
                          "(", "invalid", "parameters", "or", "unsupported",
                          "operation", ")", ".">>
          [] c = 429 -> <<"429", "Too", "Many", "Requests", ":", "Too", "many",
                          "requests", "in", "a", "short", "time", "period",
                          ".">>
          [] c = 500 -> <<"500", "Internal", "Server", "Error", ":", "The",
                          "Intervals.icu", "server", "encountered", "an",
                          "internal", "error", ".">>
          [] c = 503 -> <<"503", "Service", "Unavailable", ":", "The",
                          "Intervals.icu", "server", "might", "be", "down",
                          "or", "undergoing", "maintenance", ".">>]

\* Mutant of _get_error_message: the table lookup never hits.
GetErrorMessageRawText(error_code, error_text) == error_text

\* _get_error_message: the table text for a mapped status, the raw response
\* text for an unmapped one and for a code that is no HTTPStatus (ValueError).
_get_error_message(error_code, error_text) ==
    IF error_code \in HTTPStatusCodes
    THEN IF error_code \in DOMAIN error_messages
         THEN error_messages[error_code]
         ELSE error_text
    ELSE error_text

\* Mutant of _handle_http_status_error: an unmapped status gets a fixed text
\* and not the raw response text.
HandleHttpStatusErrorFixedFallback(response) ==
    PyDict([error |-> TRUE,
            status_code |-> response.status_code,
            message |-> IF response.status_code \in DOMAIN error_messages
                        THEN error_messages[response.status_code]
                        ELSE <<"Unknown", "error">>])

\* _handle_http_status_error: the error dict for an HTTPStatusError.
_handle_http_status_error(response) ==
    PyDict([error |-> TRUE,
            status_code |-> response.status_code,
            message |-> _get_error_message(response.status_code,
                                           response.content)])

\* The error dict without status code of the other error paths.
ErrorDict(message) == PyDict([error |-> TRUE, message |-> message])

ApiKeyRequiredMsg ==
    <<"API", "key", "is", "required", ".", "Set", "API_KEY", "env", "var",
      "or", "pass", "api_key">>
InvalidJsonMsg == <<"Invalid", "JSON", "in", "response">>
RequestErrorPrefix == <<"Request", "error", ":">>
HTTPClientErrorPrefix == <<"HTTP", "client", "error", ":">>

\* Mutant of _prepare_request_config: only a key that is None counts as
\* missing, an empty key is sent.
PrepareRequestConfigNoneOnly(api_key, method, default_key) ==
    LET key_to_use == IF api_key /= None THEN api_key ELSE default_key
    IN IF key_to_use = None
       THEN [auth |-> <<"", "">>, headers |-> << >>,
             error_msg |-> ApiKeyRequiredMsg]
       ELSE [auth |-> <<"API_KEY", key_to_use>>,
             headers |-> [h \in {"User-Agent", "Accept"} |->
                             IF h = "Accept" THEN "application/json"
                             ELSE "user-agent"],
             error_msg |-> << >>]

\* ------------------------------------------------- _prepare_request_config
\* Returns the auth pair, the headers and the error message (empty when the
\* configuration is valid); default_key is config.api_key.
_prepare_request_config(api_key, method, default_key) ==
    LET base == [h \in {"User-Agent", "Accept"} |->
                    IF h = "Accept" THEN "application/json" ELSE "user-agent"]
        headers == IF method \in {"POST", "PUT"}
                   THEN [h \in {"User-Agent", "Accept", "Content-Type"} |->
                            IF h = "User-Agent" THEN "user-agent"
                            ELSE "application/json"]
                   ELSE base
        key_to_use == IF api_key /= None THEN api_key ELSE default_key
    IN IF ~Truthy(key_to_use)
       THEN [auth |-> <<"", "">>, headers |-> << >>,
             error_msg |-> ApiKeyRequiredMsg]
       ELSE [auth |-> <<"API_KEY", key_to_use>>, headers |-> headers,
             error_msg |-> << >>]

\* Mutant of _parse_response: raise_for_status before the body is decoded.
ParseResponseStatusFirst(response) ==
    IF ~IsSuccess(response.status_code)
    THEN [raised |-> TRUE, json_error |-> FALSE, value |-> PyDict(<< >>)]
    ELSE LET decoded == IF Len(response.content) > 0
                        THEN JsonLoads(response.content)
                        ELSE [ok |-> TRUE, val |-> PyDict(<< >>)]
         IN IF ~decoded.ok
            THEN [raised |-> FALSE, json_error |-> TRUE,
                  value |-> ErrorDict(InvalidJsonMsg)]
            ELSE [raised |-> FALSE, json_error |-> FALSE,
                  value |-> decoded.val]

\* ---------------------------------------------------------- _parse_response
\* Either the value that is returned (raised = FALSE) or the HTTPStatusError
\* of raise_for_status (raised = TRUE).  An empty body decodes to {};
\* json_error tells that the value is the error dict of the except clause.
_parse_response(response) ==
    LET decoded == IF Len(response.content) > 0
                   THEN JsonLoads(response.content)
                   ELSE [ok |-> TRUE, val |-> PyDict(<< >>)]
    IN IF ~decoded.ok
       THEN [raised |-> FALSE, json_error |-> TRUE,
             value |-> ErrorDict(InvalidJsonMsg)]
       ELSE IF ~IsSuccess(response.status_code)
       THEN [raised |-> TRUE, json_error |-> FALSE, value |-> PyDict(<< >>)]
       ELSE [raised |-> FALSE, json_error |-> FALSE, value |-> decoded.val]

\* Mutant of _get_httpx_client: the module-level client is reused without
\* looking at is_closed.
GetHttpxClientNoClosedCheck(server_client, module_client, closed, n) ==
    IF server_client /= 0 /\ ~closed[server_client]
    THEN [client |-> server_client, httpx_client |-> module_client,
          nhandles |-> n, seen |-> {}]
    ELSE IF module_client = 0
    THEN [client |-> n + 1, httpx_client |-> n + 1, nhandles |-> n + 1,
          seen |-> {}]
    ELSE [client |-> module_client, httpx_client |-> module_client,
          nhandles |-> n, seen |-> {}]

\* -------------------------------------------------------- _get_httpx_client
\* The handle returned, the new value of the module-level reference and the
\* number of handles allocated: an open server-module handle wins, then an
\* open module-level handle, else a new AsyncClient replaces the reference.
\* 0 stands for None; closed maps every handle to its is_closed flag; seen
\* is the set of handles whose is_closed was read as true on the way.
_get_httpx_client(server_client, module_client, closed, n) ==
    LET seen_server == IF server_client /= 0 /\ closed[server_client]
                       THEN {server_client} ELSE {}
    IN IF server_client /= 0 /\ ~closed[server_client]
       THEN [client |-> server_client, httpx_client |-> module_client,
             nhandles |-> n, seen |-> {}]
       ELSE IF module_client = 0 \/ closed[module_client]
       THEN [client |-> n + 1, httpx_client |-> n + 1, nhandles |-> n + 1,
             seen |-> seen_server \cup ({module_client} \ {0})]
       ELSE [client |-> module_client, httpx_client |-> module_client,
             nhandles |-> n, seen |-> seen_server]

\* --------------------------------------------------------- RuntimeError text
\* httpx: "Cannot send a request, as the client has been closed."
ClosedClientText ==
    <<"Cannot", "send", "a", "request", ",", "as", "the", "client", "has",
      "been", "closed", ".">>
\* asyncio: "Event loop is closed"
OtherRuntimeText == <<"Event", "loop", "is", "closed">>

\* str.lower on the lexemes that carry an upper-case letter here.
Lower(text) ==
    [i \in 1..Len(text) |->
        CASE text[i] = "Cannot" -> "cannot"
          [] text[i] = "Event" -> "event"
          [] OTHER -> text[i]]

\* Mutant of IsClosedClientFault: the pattern is another wording.
IsClosedClientFaultOtherWording(text) ==
    Contains(Lower(text), <<"client", "is", "closed">>)

\* the test of the except RuntimeError clause.
IsClosedClientFault(text) ==
    Contains(Lower(text), <<"client", "has", "been", "closed">>)

\* ------------------------------------------------------------- environment
\* The tool invocations that may be in flight at the same time.
Tasks == {"t1", "t2"}

\* Arguments of make_intervals_request and the configured default key.
ApiKeyArgs == {None, "", "explicit-key"}
DefaultKeys == {None, "", "default-key"}
Methods == {"GET", "POST", "PUT", "DELETE"}
DataArgs == {None, "data"}

\* What the remote can answer: a status code and a body.
StatusCodes == {200, 204, 301, 400, 401, 403, 404, 422, 429, 500, 503, 599}
Bodies ==
    { << >>,
      <<"{", "}">>,
      <<"{", "id", ":", "1", "}">>,
      <<"[", "{", "id", ":", "1", "}", "]">>,
      <<"<html>", "Bad", "Gateway", "</html>">>,
      <<"{", "id", ":">> }
Responses == [status_code : StatusCodes, content : Bodies]

\* str(e) of a transport error: httpx timeouts often carry an empty text.
RequestErrorTexts == { << >>, <<"All", "connection", "attempts", "failed">> }

\* What one open-client send can end with.
Outcomes ==
    [kind : {"response"}, response : Responses]
      \cup [kind : {"RequestError", "HTTPError"}, text : RequestErrorTexts]
      \cup [kind : {"RuntimeError"}, text : {OtherRuntimeText}]

NoResponse == [status_code |-> 0, content |-> << >>]
NoResult == [type |-> "none"]
DefaultReq == [api_key |-> None, method |-> "GET", data |-> None]
NoCfg == [auth |-> <<"", "">>, headers |-> << >>, error_msg |-> << >>]

Handles == 1..MaxHandles

\* Python's None for a text held as a sequence of characters.
NoneText == <<"None">>
TruthyText(s) == s /= NoneText /\ s /= << >>

\* config.athlete_id: unset (empty) or set.
DefaultAthleteIds == {"", "i1"}
\* The athlete_id argument of a tool.
AthleteIdArgs == {None, "", "i2"}

NoArgs == [athlete_id |-> None, api_key |-> None, start_date |-> NoneText,
           end_date |-> NoneText, event_id |-> None]
NoParams == [oldest |-> NoneText, newest |-> NoneText]
NoEventData == [name |-> NoneText, workout_type |-> NoneText,
                type |-> << >>, start_date_local |-> << >>]

\* ------------------------------------------------------------------- state
VARIABLES
    config_api_key,      \* config.api_key, loaded once from the environment
    httpx_client,        \* api.client.httpx_client: 0 (None) or a handle
    server_httpx_client, \* server.httpx_client: 0 (None or no attribute) or a handle
    nhandles,            \* number of client objects constructed so far
    is_closed,           \* is_closed of every handle
    seen_closed,         \* handles the request path has observed closed
    aclose_calls,        \* number of aclose() calls the teardown made per handle
    lifespan,            \* "serving", "finally" (between the two closes), "stopped"
    teardowns,           \* number of runs of the finally block started
    pc,                  \* position of every task in make_intervals_request
    req,                 \* arguments of the call
    cfg,                 \* result of _prepare_request_config (auth, headers)
    client,              \* local variable client: the handle in use, 0 if none
    nsends,              \* number of _send_request calls of this call
    ngets,               \* number of _get_httpx_client calls of this call
    discards,            \* number of resets of httpx_client on the retry path
    stale,               \* no shared handle was open and one was closed at the call
    response,            \* the response received, NoResponse if none
    path,                \* the return statement taken, "" before the return
    result               \* the value returned to the caller

\* The tool handlers of tools/events.py, which run on top of the client.
VARIABLES
    config_athlete_id,   \* config.athlete_id, loaded once from the environment
    hpc,                 \* position of the handler: "idle", "awaiting", "done", "failed"
    tool,                \* name of the tool invoked, "" if none
    args,                \* arguments of the invocation
    url,                 \* url argument of the handler's request, << >> if none
    params,              \* params argument of the handler's request
    ncalls,              \* number of make_intervals_request calls of the invocation
    output,              \* the string the handler returned
    formatted,           \* the values a formatter was applied to, in order
    event_data           \* the last result of _prepare_event_data with its inputs

shared == <<httpx_client, server_httpx_client, nhandles, is_closed>>
teardown == <<aclose_calls, lifespan, teardowns>>
locals == <<pc, req, cfg, client, nsends, ngets, discards, stale, response,
            path, result>>
handler == <<config_athlete_id, hpc, tool, args, url, params, ncalls, output,
             formatted>>
vars == <<config_api_key, shared, seen_closed, teardown, locals, handler,
          event_data>>

\* The client module after import.
InitClient ==
    /\ config_api_key \in DefaultKeys
    /\ httpx_client = 0
    /\ server_httpx_client = 0
    /\ nhandles = 0
    /\ is_closed = [h \in Handles |-> FALSE]
    /\ seen_closed = {}
    /\ aclose_calls = [h \in Handles |-> 0]
    /\ lifespan = "serving"
    /\ teardowns = 0
    /\ pc = [t \in Tasks |-> "idle"]
    /\ req = [t \in Tasks |-> DefaultReq]
    /\ cfg = [t \in Tasks |-> NoCfg]
    /\ client = [t \in Tasks |-> 0]
    /\ nsends = [t \in Tasks |-> 0]
    /\ ngets = [t \in Tasks |-> 0]
    /\ discards = [t \in Tasks |-> 0]
    /\ stale = [t \in Tasks |-> FALSE]
    /\ response = [t \in Tasks |-> NoResponse]
    /\ path = [t \in Tasks |-> ""]
    /\ result = [t \in Tasks |-> NoResult]

\* No tool has been invoked.
InitHandler ==
    /\ hpc = "idle"
    /\ tool = ""
    /\ args = NoArgs
    /\ url = << >>
    /\ params = NoParams
    /\ ncalls = 0
    /\ output = << >>
    /\ formatted = << >>
    /\ event_data = NoEventData

\* The running server: its start-up has checked that the default athlete ID
\* is set (server.py validates it before mcp.run).
Init ==
    /\ InitClient
    /\ InitHandler
    /\ config_athlete_id = "i1"

\* A shared reference is set and points to an open handle.
ModuleOpen == httpx_client /= 0 /\ ~is_closed[httpx_client]
ServerOpen == server_httpx_client /= 0 /\ ~is_closed[server_httpx_client]

\* Some shared reference is set, and none points to an open handle.
SharedHandleClosed ==
    /\ httpx_client /= 0 \/ server_httpx_client /= 0
    /\ ~ModuleOpen
    /\ ~ServerOpen

\* ------------------------------------------------- make_intervals_request
\* A handler calls make_intervals_request: the arguments are bound.
Call(t, api_key, method, data) ==
    /\ pc[t] = "idle"
    /\ pc' = [pc EXCEPT ![t] = "called"]
    /\ req' = [req EXCEPT ![t] = [api_key |-> api_key, method |-> method,
                                  data |-> data]]
    /\ UNCHANGED <<config_api_key, shared, seen_closed, teardown, cfg, client,
                   nsends, ngets, discards, stale, response, path, result>>

\* The call leaves make_intervals_request by the return statement named by
\* where: the frame and its locals are gone, the arguments and the counters
\* of the call stay for inspection.
Returns(t, where, value, resp) ==
    /\ pc' = [pc EXCEPT ![t] = "returned"]
    /\ path' = [path EXCEPT ![t] = where]
    /\ result' = [result EXCEPT ![t] = value]
    /\ response' = [response EXCEPT ![t] = resp]
    /\ cfg' = [cfg EXCEPT ![t] = NoCfg]
    /\ client' = [client EXCEPT ![t] = 0]

\* The call leaves make_intervals_request with an exception.
Raises(t) ==
    /\ pc' = [pc EXCEPT ![t] = "raised"]
    /\ path' = [path EXCEPT ![t] = "raise"]
    /\ result' = [result EXCEPT ![t] = NoResult]
    /\ response' = [response EXCEPT ![t] = NoResponse]
    /\ cfg' = [cfg EXCEPT ![t] = NoCfg]
    /\ client' = [client EXCEPT ![t] = 0]

\* Lines 172-198: prepare the configuration; on a configuration error return
\* the error dict (line 175), else obtain the client.
Prepare(t) ==
    /\ pc[t] = "called"
    /\ LET c == _prepare_request_config(req[t].api_key, req[t].method,
                                        config_api_key)
       IN IF Len(c.error_msg) > 0
          THEN /\ Returns(t, "config", ErrorDict(c.error_msg), NoResponse)
               /\ UNCHANGED <<shared, seen_closed, ngets, stale>>
          ELSE LET g == _get_httpx_client(server_httpx_client, httpx_client,
                                          is_closed, nhandles)
               IN /\ g.nhandles <= MaxHandles
                  /\ pc' = [pc EXCEPT ![t] = "send"]
                  /\ cfg' = [cfg EXCEPT ![t] = c]
                  /\ client' = [client EXCEPT ![t] = g.client]
                  /\ httpx_client' = g.httpx_client
                  /\ nhandles' = g.nhandles
                  /\ seen_closed' = seen_closed \cup g.seen
                  /\ ngets' = [ngets EXCEPT ![t] = @ + 1]
                  /\ stale' = [stale EXCEPT ![t] = SharedHandleClosed]
                  /\ UNCHANGED <<server_httpx_client, is_closed, response,
                                 path, result>>
    /\ UNCHANGED <<config_api_key, teardown, req, nsends, discards>>

\* _send_request: the request handed to client.request.  The body is sent
\* for POST and PUT with data only.
_send_request(r, c) ==
    [method |-> r.method, auth |-> c.auth, headers |-> c.headers,
     timeout |-> 30,
     content |-> IF r.method \in {"POST", "PUT"} /\ r.data /= None
                 THEN <<r.data>> ELSE << >>]

\* client.request on handle h: httpx raises the closed-client RuntimeError
\* when the client is closed, else the send ends as the remote and the
\* transport decide (o).
Attempt(h, o) ==
    IF is_closed[h]
    THEN [kind |-> "RuntimeError", text |-> ClosedClientText]
    ELSE o

\* Mutant of Complete: the clause for httpx.HTTPError, the base class of
\* httpx.RequestError, comes first and takes the transport errors as well.
CompleteHTTPErrorFirst(t, o) ==
    CASE o.kind = "response" ->
           LET parsed == _parse_response(o.response) IN
           IF parsed.raised
           THEN Returns(t, "status", _handle_http_status_error(o.response),
                        o.response)
           ELSE Returns(t, IF parsed.json_error THEN "decode" ELSE "json",
                        parsed.value, o.response)
      [] o.kind \in {"RequestError", "HTTPError"} ->
           Returns(t, "http", ErrorDict(HTTPClientErrorPrefix \o o.text),
                   NoResponse)

\* Lines 213-221: a send ended with a response or an httpx error.
Complete(t, o) ==
    CASE o.kind = "response" ->
           LET parsed == _parse_response(o.response) IN
           IF parsed.raised
           THEN Returns(t, "status", _handle_http_status_error(o.response),
                        o.response)
           ELSE Returns(t, IF parsed.json_error THEN "decode" ELSE "json",
                        parsed.value, o.response)
      [] o.kind = "RequestError" ->
           Returns(t, "request", ErrorDict(RequestErrorPrefix \o o.text),
                   NoResponse)
      [] o.kind = "HTTPError" ->
           Returns(t, "http", ErrorDict(HTTPClientErrorPrefix \o o.text),
                   NoResponse)

\* Lines 200-211: the first send.  On the closed-client RuntimeError the
\* module-level reference is reset and the client obtained again; any other
\* RuntimeError is re-raised and no except clause of the outer try names it.
Send(t, o) ==
    /\ pc[t] = "send"
    /\ nsends' = [nsends EXCEPT ![t] = @ + 1]
    /\ LET a == Attempt(client[t], o) IN
       IF a.kind = "RuntimeError"
       THEN IF IsClosedClientFault(a.text)
            THEN LET g == _get_httpx_client(server_httpx_client, 0, is_closed,
                                            nhandles)
                 IN /\ g.nhandles <= MaxHandles
                    /\ pc' = [pc EXCEPT ![t] = "resend"]
                    /\ client' = [client EXCEPT ![t] = g.client]
                    /\ httpx_client' = g.httpx_client
                    /\ nhandles' = g.nhandles
                    /\ seen_closed' = seen_closed \cup {client[t]} \cup g.seen
                    /\ ngets' = [ngets EXCEPT ![t] = @ + 1]
                    /\ discards' = [discards EXCEPT ![t] = @ + 1]
                    /\ UNCHANGED <<server_httpx_client, is_closed, cfg,
                                   response, path, result>>
            ELSE /\ Raises(t)
                 /\ UNCHANGED <<shared, seen_closed, ngets, discards>>
       ELSE /\ Complete(t, a)
            /\ UNCHANGED <<shared, seen_closed, ngets, discards>>
    /\ UNCHANGED <<config_api_key, teardown, req, stale>>

\* Mutant of Resend: the closed-client fault of the second send is retried
\* as well.
ResendAgain(t, o) ==
    /\ pc[t] = "resend"
    /\ nsends' = [nsends EXCEPT ![t] = @ + 1]
    /\ LET a == Attempt(client[t], o) IN
       IF a.kind = "RuntimeError"
       THEN LET g == _get_httpx_client(server_httpx_client, 0, is_closed,
                                       nhandles)
            IN /\ g.nhandles <= MaxHandles
               /\ client' = [client EXCEPT ![t] = g.client]
               /\ httpx_client' = g.httpx_client
               /\ nhandles' = g.nhandles
               /\ seen_closed' = seen_closed \cup {client[t]} \cup g.seen
               /\ ngets' = [ngets EXCEPT ![t] = @ + 1]
               /\ discards' = [discards EXCEPT ![t] = @ + 1]
               /\ UNCHANGED <<server_httpx_client, is_closed, pc, cfg,
                              response, path, result>>
       ELSE /\ Complete(t, a)
            /\ UNCHANGED <<shared, seen_closed, ngets, discards>>
    /\ UNCHANGED <<config_api_key, teardown, req, stale>>

\* Line 211: the second send; a RuntimeError of it is not handled.
Resend(t, o) ==
    /\ pc[t] = "resend"
    /\ nsends' = [nsends EXCEPT ![t] = @ + 1]
    /\ LET a == Attempt(client[t], o) IN
       IF a.kind = "RuntimeError"
       THEN /\ Raises(t)
            /\ seen_closed' = IF is_closed[client[t]]
                              THEN seen_closed \cup {client[t]}
                              ELSE seen_closed
       ELSE /\ Complete(t, a)
            /\ UNCHANGED seen_closed
    /\ UNCHANGED <<config_api_key, shared, teardown, req, ngets, discards,
                   stale>>

\* The caller has taken the value (or the exception): the task is free again.
Return(t) ==
    /\ pc[t] \in {"returned", "raised"}
    /\ pc' = [pc EXCEPT ![t] = "idle"]
    /\ req' = [req EXCEPT ![t] = DefaultReq]
    /\ nsends' = [nsends EXCEPT ![t] = 0]
    /\ ngets' = [ngets EXCEPT ![t] = 0]
    /\ discards' = [discards EXCEPT ![t] = 0]
    /\ stale' = [stale EXCEPT ![t] = FALSE]
    /\ response' = [response EXCEPT ![t] = NoResponse]
    /\ path' = [path EXCEPT ![t] = ""]
    /\ result' = [result EXCEPT ![t] = NoResult]
    /\ UNCHANGED <<config_api_key, shared, seen_closed, teardown, cfg, client>>

\* --------------------------------------------------------------- transport
\* Handles some reference still points to.
Referenced ==
    ({httpx_client, server_httpx_client} \cup {client[t] : t \in Tasks}) \ {0}

\* A downstream transport closes a client between two steps of the program.
TransportClose(h) ==
    /\ h \in Referenced
    /\ ~is_closed[h]
    /\ is_closed' = [is_closed EXCEPT ![h] = TRUE]
    /\ UNCHANGED <<config_api_key, httpx_client, server_httpx_client, nhandles,
                   seen_closed, teardown, locals>>

\* A test sets server.httpx_client: to None, to a client of its own, or to
\* the object api.client.httpx_client refers to.
Monkeypatch(kind) ==
    /\ \A t \in Tasks : pc[t] = "idle"
    /\ CASE kind = "none" ->
              /\ server_httpx_client /= 0
              /\ server_httpx_client' = 0
              /\ UNCHANGED nhandles
         [] kind = "same" ->
              /\ httpx_client /= 0
              /\ server_httpx_client /= httpx_client
              /\ server_httpx_client' = httpx_client
              /\ UNCHANGED nhandles
         [] kind = "own" ->
              /\ nhandles < MaxHandles
              /\ server_httpx_client' = nhandles + 1
              /\ nhandles' = nhandles + 1
    /\ UNCHANGED <<config_api_key, httpx_client, is_closed, seen_closed,
                   teardown, locals>>

\* --------------------------------------------------------- setup_api_client
\* Lines 68-70: the finally block closes the module-level client if open;
\* aclose marks the client closed before it suspends.  With no open
\* module-level client nothing is awaited, and lines 74-81 follow in the same
\* step.
TeardownModule ==
    /\ lifespan \in {"serving", "stopped"}
    /\ teardowns < MaxTeardowns
    /\ teardowns' = teardowns + 1
    /\ IF ModuleOpen
       THEN /\ lifespan' = "finally"
            /\ is_closed' = [is_closed EXCEPT ![httpx_client] = TRUE]
            /\ aclose_calls' = [aclose_calls EXCEPT ![httpx_client] = @ + 1]
       ELSE /\ lifespan' = "stopped"
            /\ IF ServerOpen
               THEN /\ is_closed' = [is_closed EXCEPT
                                        ![server_httpx_client] = TRUE]
                    /\ aclose_calls' = [aclose_calls EXCEPT
                                           ![server_httpx_client] = @ + 1]
               ELSE UNCHANGED <<is_closed, aclose_calls>>
    /\ UNCHANGED <<config_api_key, httpx_client, server_httpx_client, nhandles,
                   seen_closed, locals>>

\* Mutant of TeardownServer: aclose without looking at is_closed.
TeardownServerUnchecked ==
    /\ lifespan = "finally"
    /\ lifespan' = "stopped"
    /\ IF server_httpx_client /= 0
       THEN /\ is_closed' = [is_closed EXCEPT ![server_httpx_client] = TRUE]
            /\ aclose_calls' = [aclose_calls EXCEPT
                                   ![server_httpx_client] = @ + 1]
       ELSE UNCHANGED <<is_closed, aclose_calls>>
    /\ UNCHANGED <<config_api_key, httpx_client, server_httpx_client, nhandles,
                   seen_closed, teardowns, locals>>

\* Lines 74-81: then the server-module client if it is open.
TeardownServer ==
    /\ lifespan = "finally"
    /\ lifespan' = "stopped"
    /\ IF ServerOpen
       THEN /\ is_closed' = [is_closed EXCEPT ![server_httpx_client] = TRUE]
            /\ aclose_calls' = [aclose_calls EXCEPT
                                   ![server_httpx_client] = @ + 1]
       ELSE UNCHANGED <<is_closed, aclose_calls>>
    /\ UNCHANGED <<config_api_key, httpx_client, server_httpx_client, nhandles,
                   seen_closed, teardowns, locals>>

\* ------------------------------------------------------------ tools/events.py
\* A date text as a sequence of characters.
ValidDate == <<"2", "0", "2", "4", "-", "0", "1", "-", "1", "5">>
\* utils.dates: the defaults of get_events, today and today + 30 days.
get_default_end_date == <<"2", "0", "2", "4", "-", "0", "1", "-", "0", "1">>
get_default_future_end_date == <<"2", "0", "2", "4", "-", "0", "1", "-", "3", "1">>

\* The start_date and end_date arguments: absent, empty, a date, no date.
DateArgs == {NoneText, << >>, ValidDate, <<"y", "e", "s", "t", "e", "r", "d", "a", "y">>}
EventIdArgs == {"e1"}
\* The api_key argument of a tool.
ToolApiKeyArgs == {None, "explicit-key"}

\* utils.validation.resolve_athlete_id: the explicit value wins, else the
\* default; with neither, an error string and no ID.
NoAthleteIdMsg ==
    <<"Error", ":", "No", "athlete", "ID", "provided", "and", "no", "default",
      "ATHLETE_ID", "found", ".">>
resolve_athlete_id(athlete_id, default_athlete_id) ==
    IF Truthy(athlete_id)
    THEN [id |-> athlete_id, error_msg |-> << >>]
    ELSE IF Truthy(default_athlete_id)
    THEN [id |-> default_athlete_id, error_msg |-> << >>]
    ELSE [id |-> "", error_msg |-> NoAthleteIdMsg]

\* Python truthiness of a decoded JSON value: an empty dict and an empty list
\* are falsy, the scalars of ScalarTokens are truthy.
PyTruthy(v) ==
    CASE v.type = "dict" -> DOMAIN v.items /= {}
      [] v.type = "list" -> Len(v.elems) > 0
      [] OTHER -> TRUE

\* isinstance(result, dict) and "error" in result
IsErrorResult(res) == res.type = "dict" /\ "error" \in DOMAIN res.items

\* result.get("message", "Unknown error")
ErrorMessageOf(res) ==
    IF "message" \in DOMAIN res.items
    THEN res.items.message
    ELSE <<"Unknown", "error">>

\* event.get(k, placeholder) as text.
FieldText(event, k) ==
    IF k \in DOMAIN event.items
    THEN IF event.items[k].type = "scalar" THEN event.items[k].tok
         ELSE "<json>"
    ELSE "N/A"

\* utils.formatting: a text block with the known fields of the event, a
\* placeholder for a missing one.
format_event_summary(event) ==
    <<"Name:", FieldText(event, "name"), "ID:", FieldText(event, "id")>>
format_event_details(event) ==
    <<"Event Details:", "Name:", FieldText(event, "name"),
      "ID:", FieldText(event, "id")>>

NoEventsFound(athlete_id_to_use) ==
    <<"No events found for athlete ", athlete_id_to_use,
      " in the specified date range.">>

\* Lines 144-151: the loop over the events; elements that are no dict are
\* skipped.  acc is [output, formatted] so far.
RECURSIVE EventsSummary(_, _, _)
EventsSummary(events, i, acc) ==
    IF i > Len(events) THEN acc
    ELSE IF events[i].type /= "dict"
    THEN EventsSummary(events, i + 1, acc)
    ELSE EventsSummary(events, i + 1,
            [output |-> acc.output \o format_event_summary(events[i])
                                   \o <<"\n\n">>,
             formatted |-> Append(acc.formatted, events[i])])

\* Mutant of get_events_result: the summary is assigned, not appended, so
\* only the last event is left.
GetEventsResultLastOnly(athlete_id_to_use, res) ==
    IF IsErrorResult(res)
    THEN [output |-> <<"Error", "fetching", "events", ":">>
                        \o ErrorMessageOf(res),
          formatted |-> << >>]
    ELSE IF ~PyTruthy(res)
    THEN [output |-> NoEventsFound(athlete_id_to_use), formatted |-> << >>]
    ELSE LET events == IF res.type = "list" THEN res.elems ELSE << >>
         IN IF Len(events) = 0
            THEN [output |-> NoEventsFound(athlete_id_to_use),
                  formatted |-> << >>]
            ELSE EventsSummary(<<events[Len(events)]>>, 1,
                               [output |-> <<"Events:", "\n\n">>,
                                formatted |-> << >>])

\* get_events, lines 130-151: the string returned for the value res of the
\* client, and the values the formatter was applied to.
get_events_result(athlete_id_to_use, res) ==
    IF IsErrorResult(res)
    THEN [output |-> <<"Error", "fetching", "events", ":">>
                        \o ErrorMessageOf(res),
          formatted |-> << >>]
    ELSE IF ~PyTruthy(res)
    THEN [output |-> NoEventsFound(athlete_id_to_use), formatted |-> << >>]
    ELSE LET events == IF res.type = "list" THEN res.elems ELSE << >>
         IN IF Len(events) = 0
            THEN [output |-> NoEventsFound(athlete_id_to_use),
                  formatted |-> << >>]
            ELSE EventsSummary(events, 1,
                               [output |-> <<"Events:", "\n\n">>,
                                formatted |-> << >>])

\* Mutant of get_event_by_id_result: only a record with a status code
\* counts as an error.
GetEventByIdResultStatusCodeOnly(event_id, res) ==
    IF res.type = "dict" /\ "status_code" \in DOMAIN res.items
    THEN [output |-> <<"Error", "fetching", "event", "details", ":">>
                        \o ErrorMessageOf(res),
          formatted |-> << >>]
    ELSE IF ~PyTruthy(res)
    THEN [output |-> <<"No details found for event ", event_id, ".">>,
          formatted |-> << >>]
    ELSE IF res.type /= "dict"
    THEN [output |-> <<"Invalid event format for event ", event_id, ".">>,
          formatted |-> << >>]
    ELSE [output |-> format_event_details(res), formatted |-> <<res>>]

\* get_event_by_id, lines 187-198.
get_event_by_id_result(event_id, res) ==
    IF IsErrorResult(res)
    THEN [output |-> <<"Error", "fetching", "event", "details", ":">>
                        \o ErrorMessageOf(res),
          formatted |-> << >>]
    ELSE IF ~PyTruthy(res)
    THEN [output |-> <<"No details found for event ", event_id, ".">>,
          formatted |-> << >>]
    ELSE IF res.type /= "dict"
    THEN [output |-> <<"Invalid event format for event ", event_id, ".">>,
          formatted |-> << >>]
    ELSE [output |-> format_event_details(res), formatted |-> <<res>>]

\* A handler is entered: no invocation is suspended in the single session
\* modelled here.
CanInvoke == hpc /= "awaiting" /\ pc["t1"] = "idle"

\* The handler returns text before it made any request.
EarlyReturn(name, a, text) ==
    /\ CanInvoke
    /\ tool' = name
    /\ args' = a
    /\ hpc' = "done"
    /\ output' = text
    /\ url' = << >>
    /\ params' = NoParams
    /\ ncalls' = 0
    /\ formatted' = << >>
    /\ UNCHANGED <<config_api_key, shared, seen_closed, teardown, locals,
                   config_athlete_id, event_data>>

\* The handler awaits make_intervals_request(url=u, api_key=..., params=p):
\* method and data keep their defaults GET and None.
AwaitRequest(name, a, u, p) ==
    /\ CanInvoke
    /\ tool' = name
    /\ args' = a
    /\ hpc' = "awaiting"
    /\ output' = << >>
    /\ url' = u
    /\ params' = p
    /\ ncalls' = 1
    /\ formatted' = << >>
    /\ Call("t1", a.api_key, "GET", None)
    /\ UNCHANGED <<config_athlete_id, event_data>>

\* Mutant of get_events: the path is built from the default athlete ID when
\* one is configured.
GetEventsDefaultAthleteInPath(athlete_id, api_key, start_date, end_date) ==
    LET a == [athlete_id |-> athlete_id, api_key |-> api_key,
              start_date |-> start_date, end_date |-> end_date,
              event_id |-> None]
        r == resolve_athlete_id(athlete_id, config_athlete_id)
        oldest == IF TruthyText(start_date) THEN start_date
                  ELSE get_default_end_date
        newest == IF TruthyText(end_date) THEN end_date
                  ELSE get_default_future_end_date
    IN AwaitRequest("get_events", a,
                    <<"/athlete/", config_athlete_id, "/events">>,
                    [oldest |-> oldest, newest |-> newest])

\* get_events, lines 112-128: resolve the athlete ID, default the dates,
\* request /athlete/{id}/events with oldest and newest.
get_events(athlete_id, api_key, start_date, end_date) ==
    LET a == [athlete_id |-> athlete_id, api_key |-> api_key,
              start_date |-> start_date, end_date |-> end_date,
              event_id |-> None]
        r == resolve_athlete_id(athlete_id, config_athlete_id)
        oldest == IF TruthyText(start_date) THEN start_date
                  ELSE get_default_end_date
        newest == IF TruthyText(end_date) THEN end_date
                  ELSE get_default_future_end_date
    IN IF Len(r.error_msg) > 0
       THEN EarlyReturn("get_events", a, r.error_msg)
       ELSE AwaitRequest("get_events", a, <<"/athlete/", r.id, "/events">>,
                         [oldest |-> oldest, newest |-> newest])

\* get_event_by_id, lines 177-185: resolve the athlete ID, request
\* /athlete/{id}/event/{event_id}.
get_event_by_id(event_id, athlete_id, api_key) ==
    LET a == [athlete_id |-> athlete_id, api_key |-> api_key,
              start_date |-> NoneText, end_date |-> NoneText,
              event_id |-> event_id]
        r == resolve_athlete_id(athlete_id, config_athlete_id)
    IN IF Len(r.error_msg) > 0
       THEN EarlyReturn("get_event_by_id", a, r.error_msg)
       ELSE AwaitRequest("get_event_by_id", a,
                         <<"/athlete/", r.id, "/event/", event_id>>, NoParams)

\* The await of the handler ends: the value of the client is turned into the
\* string returned; an exception of the client leaves the handler as it is.
Resume ==
    /\ hpc = "awaiting"
    /\ pc["t1"] \in {"returned", "raised"}
    /\ Return("t1")
    /\ IF pc["t1"] = "raised"
       THEN /\ hpc' = "failed"
            /\ UNCHANGED <<output, formatted>>
       ELSE LET athlete_id_to_use ==
                    resolve_athlete_id(args.athlete_id, config_athlete_id).id
                r == IF tool = "get_events"
                     THEN get_events_result(athlete_id_to_use, result["t1"])
                     ELSE get_event_by_id_result(args.event_id, result["t1"])
            IN /\ hpc' = "done"
               /\ output' = r.output
               /\ formatted' = r.formatted
    /\ UNCHANGED <<config_athlete_id, tool, args, url, params, ncalls,
                   event_data>>

\* The tools that server.py imports from tools.events and lists in __all__.
ExportedTools ==
    {"get_events", "get_event_by_id", "add_or_update_event", "delete_event",
     "delete_events_by_date_range"}
\* The tools that tools/events.py defines: the definitions of the other
\* three are comment lines.
DefinedTools == {"get_events", "get_event_by_id"}

\* The event tools that tools/__init__.py imports and lists in __all__: the
\* entries of the other three are comment lines.
RegisteredEventTools == {"get_events", "get_event_by_id"}

\* Mutant of InvokeUndefined: the dormant tool is live again and sends its
\* DELETE.
InvokeDormantDelete(name, event_id) ==
    /\ CanInvoke
    /\ name \in ExportedTools \ DefinedTools
    /\ tool' = name
    /\ args' = [NoArgs EXCEPT !.event_id = event_id,
                              !.start_date = ValidDate,
                              !.end_date = ValidDate]
    /\ hpc' = "awaiting"
    /\ output' = << >>
    /\ url' = <<"/athlete/", config_athlete_id, "/events">>
    /\ params' = NoParams
    /\ ncalls' = 1
    /\ formatted' = << >>
    /\ Call("t1", None, "DELETE", None)
    /\ UNCHANGED <<config_athlete_id, event_data>>

\* A tool is invoked whose name tools.events does not bind: the import
\* (the lookup of the name) fails and no request is made.
InvokeUndefined(name, event_id) ==
    /\ CanInvoke
    /\ name \in ExportedTools \ DefinedTools
    /\ tool' = name
    /\ args' = [NoArgs EXCEPT !.event_id = event_id,
                              !.start_date = ValidDate,
                              !.end_date = ValidDate]
    /\ hpc' = "failed"
    /\ output' = << >>
    /\ url' = << >>
    /\ params' = NoParams
    /\ ncalls' = 0
    /\ formatted' = << >>
    /\ UNCHANGED <<config_api_key, shared, seen_closed, teardown, locals,
                   config_athlete_id, event_data>>

\* The name and workout_type arguments of an event, as characters.
EventNames ==
    { NoneText, << >>,
      <<"M", "o", "r", "n", "i", "n", "g", " ", "S", "w", "i", "m">>,
      <<"E", "v", "e", "n", "i", "n", "g", " ", "R", "i", "d", "e">>,
      <<"E", "a", "s", "y", " ", "R", "u", "n">>,
      <<"L", "o", "n", "g", " ", "J", "o", "g">>,
      <<"P", "O", "O", "L", " ", "S", "e", "s", "s", "i", "o", "n">>,
      <<"H", "i", "l", "l", " ", "H", "i", "k", "e">>,
      <<"R", "o", "w", "i", "n", "g", " ", "I", "n", "t", "e", "r", "v", "a", "l", "s">>,
      <<"Y", "o", "g", "a">>,
      <<"B", "r", "u", "n", "c", "h">>,
      <<"G", "r", "o", "w", "t", "h">>,
      <<"S", "w", "i", "m", " ", "s", "t", "r", "i", "d", "e">>,
      <<"R", "u", "n", " ", "t", "h", "e", "n", " ", "S", "w", "i", "m">>,
      <<"B", "I", "K", "E">>,
      <<"W", "a", "l", "k">>,
      <<"S", "w", "i", "m", "m", "i", "n", "g">>,
      <<"C", "y", "c", "l", "i", "n", "g", " ", "c", "l", "a", "s", "s">>,
      <<"S", "t", "r", "e", "n", "g", "t", "h">>,
      <<"J", "o", "g", " ", "a", "n", "d", " ", "w", "a", "l", "k">> }
WorkoutTypeArgs ==
    { NoneText, << >>, <<"R", "u", "n">>, <<"Y", "o", "g", "a">>,
      <<"s", "w", "i", "m">> }

\* str.lower on the ASCII letters.
LowerChar ==
    [c \in {"A", "B", "C", "D", "E", "F", "G", "H", "I", "J", "K", "L", "M",
             "N", "O", "P", "Q", "R", "S", "T", "U", "V", "W", "X", "Y", "Z"} |->
        CASE c = "A" -> "a" [] c = "B" -> "b" [] c = "C" -> "c" [] c = "D" -> "d"
          [] c = "E" -> "e" [] c = "F" -> "f" [] c = "G" -> "g" [] c = "H" -> "h"
          [] c = "I" -> "i" [] c = "J" -> "j" [] c = "K" -> "k" [] c = "L" -> "l"
          [] c = "M" -> "m" [] c = "N" -> "n" [] c = "O" -> "o" [] c = "P" -> "p"
          [] c = "Q" -> "q" [] c = "R" -> "r" [] c = "S" -> "s" [] c = "T" -> "t"
          [] c = "U" -> "u" [] c = "V" -> "v" [] c = "W" -> "w" [] c = "X" -> "x"
          [] c = "Y" -> "y" [] c = "Z" -> "z"]
StrLower(text) ==
    [i \in 1..Len(text) |->
        IF text[i] \in DOMAIN LowerChar THEN LowerChar[text[i]] ELSE text[i]]

\* The mapping list of _resolve_workout_type, in its order.
mapping ==
    << [workout |-> <<"R", "i", "d", "e">>,
        keywords |-> <<<<"b", "i", "k", "e">>,
                       <<"c", "y", "c", "l", "e">>,
                       <<"c", "y", "c", "l", "i", "n", "g">>,
                       <<"r", "i", "d", "e">>>>],
       [workout |-> <<"R", "u", "n">>,
        keywords |-> <<<<"r", "u", "n">>,
                       <<"r", "u", "n", "n", "i", "n", "g">>,
                       <<"j", "o", "g">>,
                       <<"j", "o", "g", "g", "i", "n", "g">>>>],
       [workout |-> <<"S", "w", "i", "m">>,
        keywords |-> <<<<"s", "w", "i", "m">>,
                       <<"s", "w", "i", "m", "m", "i", "n", "g">>,
                       <<"p", "o", "o", "l">>>>],
       [workout |-> <<"W", "a", "l", "k">>,
        keywords |-> <<<<"w", "a", "l", "k">>,
                       <<"w", "a", "l", "k", "i", "n", "g">>,
                       <<"h", "i", "k", "e">>,
                       <<"h", "i", "k", "i", "n", "g">>>>],
       [workout |-> <<"R", "o", "w">>,
        keywords |-> <<<<"r", "o", "w">>,
                       <<"r", "o", "w", "i", "n", "g">>>>] >>

\* Lines 38-41: the first entry of mapping one keyword of which is a
\* substring of name_lower, from entry i on; "Ride" when there is none.
RECURSIVE FirstKeywordMatch(_, _)
FirstKeywordMatch(name_lower, i) ==
    IF i > Len(mapping) THEN <<"R", "i", "d", "e">>
    ELSE IF \E k \in 1..Len(mapping[i].keywords) :
               Contains(name_lower, mapping[i].keywords[k])
    THEN mapping[i].workout
    ELSE FirstKeywordMatch(name_lower, i + 1)

\* Mutant of _resolve_workout_type: the keywords are looked for in the name
\* as it is written.
ResolveWorkoutTypeNoLower(name, workout_type) ==
    IF TruthyText(workout_type) THEN workout_type
    ELSE FirstKeywordMatch(IF TruthyText(name) THEN name ELSE << >>, 1)

\* _resolve_workout_type, lines 26-41.
_resolve_workout_type(name, workout_type) ==
    IF TruthyText(workout_type) THEN workout_type
    ELSE FirstKeywordMatch(IF TruthyText(name) THEN StrLower(name)
                           ELSE << >>, 1)

\* _prepare_event_data, lines 44-65: the event dictionary of a request, of
\* which the model keeps the name, the type and the start date, and the
\* workout_type argument.
_prepare_event_data(name, workout_type, start_date) ==
    /\ event_data' =
          [name |-> name,
           workout_type |-> workout_type,
           type |-> _resolve_workout_type(name, workout_type),
           start_date_local |-> start_date \o <<"T", "0", "0", ":", "0", "0", ":", "0", "0">>]
    /\ UNCHANGED <<config_api_key, shared, seen_closed, teardown, locals,
                   handler>>

\* No tool handler takes a step: the client is driven directly.
NoTool == UNCHANGED <<handler, event_data>>
\* A step of the client under a suspended handler.
NoHandlerStep == hpc = "awaiting" /\ NoTool

\* ---------------------------------------------------------- specification
\* The code between the arrival of a response and the return to the caller
\* has no suspension point: while a task holds a value to hand back nothing
\* else runs.
Handing == \E t \in Tasks : pc[t] \in {"returned", "raised"}

\* Concurrent invocations under the cooperative scheduler, with the closings
\* by the transport, the test patches and the teardown: tasks switch at the
\* suspension points only, which are the boundaries of the actions.  The
\* calls use the default arguments and one answer of each kind.
LifecycleOutcomes ==
    { [kind |-> "response",
       response |-> [status_code |-> 200,
                     content |-> <<"{", "id", ":", "1", "}">>]],
      [kind |-> "response",
       response |-> [status_code |-> 401, content |-> << >>]],
      [kind |-> "RequestError", text |-> << >>],
      [kind |-> "RuntimeError", text |-> OtherRuntimeText] }

Next ==
    \/ NoTool /\ \E t \in Tasks : Return(t)
    \/ NoTool /\ ~Handing /\ \E t \in Tasks : Call(t, None, "GET", None)
    \/ NoTool /\ ~Handing /\ \E t \in Tasks : Prepare(t)
    \/ NoTool /\ ~Handing /\ \E t \in Tasks, o \in LifecycleOutcomes :
                                Send(t, o)
    \/ NoTool /\ ~Handing /\ \E t \in Tasks, o \in LifecycleOutcomes :
                                Resend(t, o)
    \/ NoTool /\ ~Handing /\ \E h \in Handles : TransportClose(h)
    \/ NoTool /\ ~Handing /\ \E kind \in {"none", "same", "own"} :
                                Monkeypatch(kind)
    \/ NoTool /\ ~Handing /\ TeardownModule
    \/ NoTool /\ ~Handing /\ TeardownServer

Spec == Init /\ [][Next]_vars

\* One invocation at a time with every argument and every answer of the
\* remote; the transport may close the client under it.
NextRequest ==
    \/ NoTool /\ Return("t1")
    \/ NoTool /\ ~Handing /\ \E k \in ApiKeyArgs, m \in Methods,
                                 d \in DataArgs : Call("t1", k, m, d)
    \/ NoTool /\ ~Handing /\ Prepare("t1")
    \/ NoTool /\ ~Handing /\ \E o \in Outcomes : Send("t1", o)
    \/ NoTool /\ ~Handing /\ \E o \in Outcomes : Resend("t1", o)
    \/ NoTool /\ ~Handing /\ \E h \in Handles : TransportClose(h)

SpecRequest == Init /\ [][NextRequest]_vars

\* What the remote answers to a tool: the bodies of event lists and events.
ToolBodies ==
    { << >>,
      <<"[", "]">>,
      <<"[", "{", "id", ":", "1", ",", "name", ":", "\"Test Event\"", "}",
        "]">>,
      <<"[", "{", "id", ":", "1", ",", "name", ":", "\"Test Event\"", "}",
        ",", "{", "name", ":", "\"Race\"", "}", "]">>,
      <<"[", "1", ",", "{", "name", ":", "\"Race\"", "}", "]">>,
      <<"[", "{", "}", "]">>,
      <<"{", "id", ":", "1", ",", "name", ":", "\"Test Event\"", "}">>,
      <<"{", "error", ":", "1", "}">>,
      <<"1">>,
      <<"<html>", "Bad", "Gateway", "</html>">> }

ToolOutcomes ==
    [kind : {"response"},
     response : [status_code : {200, 404, 418}, content : ToolBodies]]
      \cup [kind : {"RequestError"}, text : RequestErrorTexts]
      \cup [kind : {"RuntimeError"}, text : {OtherRuntimeText}]

\* The tools of tools/events.py invoked one at a time, each on top of the
\* client; the transport may close the client under them.
InitTools ==
    /\ InitClient
    /\ InitHandler
    /\ config_athlete_id \in DefaultAthleteIds

NextTools ==
    \/ \E a \in AthleteIdArgs, k \in ToolApiKeyArgs, s \in DateArgs,
          e \in DateArgs : get_events(a, k, s, e)
    \/ \E i \in EventIdArgs, a \in AthleteIdArgs, k \in ToolApiKeyArgs :
          get_event_by_id(i, a, k)
    \/ \E n \in ExportedTools \ DefinedTools, i \in {None} \cup EventIdArgs :
          InvokeUndefined(n, i)
    \/ Resume
    \/ NoHandlerStep /\ ~Handing /\ Prepare("t1")
    \/ NoHandlerStep /\ ~Handing /\ \E o \in ToolOutcomes : Send("t1", o)
    \/ NoHandlerStep /\ ~Handing /\ \E o \in ToolOutcomes : Resend("t1", o)
    \/ NoHandlerStep /\ ~Handing /\ \E h \in Handles : TransportClose(h)

SpecTools == InitTools /\ [][NextTools]_vars

\* _prepare_event_data applied to every name and workout type.
NextWorkoutType ==
    \E n \in EventNames, w \in WorkoutTypeArgs :
        _prepare_event_data(n, w, ValidDate)

SpecWorkoutType == Init /\ [][NextWorkoutType]_vars

\* ------------------------------------------------------------------ claims
\* The return statements that hand back an error dict.
ErrorPaths == {"config", "decode", "status", "request", "http"}

\* A key is present: neither None nor the empty string.
KeyPresent(k) == k /= None /\ k /= ""

\* The body is empty or decodes, and what it decodes to.
JsonOk(content) == Len(content) = 0 \/ JsonLoads(content).ok
DecodedBody(content) ==
    IF Len(content) = 0 THEN PyDict(<< >>) ELSE JsonLoads(content).val

\* r is an error record of a 401: status_code 401, a message mentioning the
\* API key.
Is401Record(r) ==
    /\ r.type = "dict"
    /\ {"error", "status_code", "message"} \subseteq DOMAIN r.items
    /\ r.items.error = TRUE
    /\ r.items.status_code = 401
    /\ Contains(r.items.message, <<"API", "key">>)

\* C1: make_intervals_request never raises to its caller: every failure of a
\* call ends in a returned error record, never in a propagated exception.
C1_NeverRaises == \A t \in Tasks : pc[t] /= "raised"

\* C2: every error record returned by make_intervals_request, for every
\* status code and body, has error = true and a non-empty message.
C2_ErrorRecordHasMessage ==
    \A t \in Tasks :
        (pc[t] = "returned" /\ path[t] \in ErrorPaths) =>
            /\ result[t].type = "dict"
            /\ {"error", "message"} \subseteq DOMAIN result[t].items
            /\ result[t].items.error = TRUE
            /\ Len(result[t].items.message) > 0

\* C3: a call with no explicit API key and no configured default returns the
\* API-key-required record at once: nothing is sent, and the shared client
\* handle is neither obtained nor created nor replaced.
C3_MissingKeyReturnsAtOnce ==
    [][\A t \in Tasks :
         (/\ pc[t] = "called"
          /\ pc'[t] /= "called"
          /\ req[t].api_key = None
          /\ ~KeyPresent(config_api_key)) =>
            /\ pc'[t] = "returned"
            /\ result'[t] = ErrorDict(ApiKeyRequiredMsg)
            /\ nsends'[t] = 0
            /\ ngets'[t] = 0
            /\ UNCHANGED <<httpx_client, server_httpx_client, nhandles,
                           is_closed>>]_vars

\* A call without any key has returned the record while a shared handle
\* exists.
C3_Witness ==
    \E t \in Tasks :
        /\ pc[t] = "returned"
        /\ path[t] = "config"
        /\ req[t].api_key = None
        /\ ~KeyPresent(config_api_key)
        /\ server_httpx_client /= 0
        /\ nsends[t] = 0

\* C4: for every status code, a response whose non-empty body is not valid
\* JSON yields the error record with message "Invalid JSON in response" and
\* no status-specific message: the body is decoded before the status is
\* looked at.
C4_InvalidJsonBeforeStatus ==
    \A t \in Tasks :
        (/\ pc[t] = "returned"
         /\ Len(response[t].content) > 0
         /\ ~JsonLoads(response[t].content).ok) =>
            /\ path[t] = "decode"
            /\ result[t] = ErrorDict(InvalidJsonMsg)

\* A 401 with a body that is no JSON has been answered with the decode error.
C4_Witness ==
    \E t \in Tasks :
        /\ pc[t] = "returned"
        /\ response[t].status_code = 401
        /\ response[t].content = <<"<html>", "Bad", "Gateway", "</html>">>
        /\ result[t] = ErrorDict(InvalidJsonMsg)

\* C5 as stated: every response with status 401, whatever its body, yields an
\* error record with status_code 401 and a message that mentions the API key.
C5_Every401Body ==
    \A t \in Tasks :
        (pc[t] = "returned" /\ response[t].status_code = 401) =>
            Is401Record(result[t])

\* C5 amended: every response with status 401 whose body is empty or valid
\* JSON yields an error record with status_code 401 and a message that
\* mentions the API key.
C5_401WithDecodableBody ==
    \A t \in Tasks :
        (/\ pc[t] = "returned"
         /\ response[t].status_code = 401
         /\ JsonOk(response[t].content)) =>
            Is401Record(result[t])

\* A 401 with a JSON body has been answered with the 401 record.
C5_Witness ==
    \E t \in Tasks :
        /\ pc[t] = "returned"
        /\ response[t].status_code = 401
        /\ response[t].content = <<"{", "id", ":", "1", "}">>
        /\ Is401Record(result[t])

\* C6: a call whose client is closed at the call or found closed at the send
\* recreates the client once and re-issues the request; when the remote then
\* answers 2xx with valid JSON the caller gets the parsed JSON and no error
\* record.
C6_ClosedClientRetrySucceeds ==
    [][\A t \in Tasks :
         /\ (pc[t] = "called" /\ pc'[t] = "send" /\ SharedHandleClosed) =>
               /\ nhandles' = nhandles + 1
               /\ client'[t] = nhandles'
               /\ httpx_client' = client'[t]
               /\ ~is_closed'[client'[t]]
         /\ (pc[t] = "send" /\ pc'[t] /= "send" /\ is_closed[client[t]]) =>
               /\ pc'[t] = "resend"
               /\ discards'[t] = 1
               /\ nsends'[t] = 1
               /\ nhandles' = nhandles + 1
               /\ client'[t] = nhandles'
               /\ httpx_client' = client'[t]
               /\ ~is_closed'[client'[t]]
         /\ (/\ pc[t] \in {"send", "resend"}
             /\ pc'[t] = "returned"
             /\ stale[t] \/ discards[t] = 1
             /\ IsSuccess(response'[t].status_code)
             /\ JsonOk(response'[t].content)) =>
               /\ path'[t] = "json"
               /\ result'[t] = DecodedBody(response'[t].content)
               /\ nsends'[t] = discards[t] + 1]_vars

\* A call has hit the closed client, sent again and returned parsed JSON.
C6_Witness ==
    \E t \in Tasks :
        /\ pc[t] = "returned"
        /\ discards[t] = 1
        /\ nsends[t] = 2
        /\ path[t] = "json"
        /\ result[t] = DecodedBody(<<"{", "id", ":", "1", "}">>)

\* C7: one call sends at most twice; the second send happens only after the
\* first raised the closed-client fault, preceded by exactly one discard and
\* re-obtaining of the client; any other fault of the first send and any
\* fault of the second ends the call.
C7_AtMostOneRetry ==
    [][\A t \in Tasks :
         nsends'[t] > nsends[t] =>
            /\ nsends'[t] = nsends[t] + 1
            /\ nsends'[t] <= 2
            /\ nsends[t] = 0 =>
                  /\ pc[t] = "send"
                  /\ (pc'[t] = "resend") <=> is_closed[client[t]]
                  /\ pc'[t] = "resend" =>
                        discards'[t] = 1 /\ ngets'[t] = ngets[t] + 1
                  /\ pc'[t] /= "resend" =>
                        /\ pc'[t] \in {"returned", "raised"}
                        /\ discards'[t] = 0
            /\ nsends[t] = 1 =>
                  /\ pc[t] = "resend"
                  /\ discards[t] = 1
                  /\ discards'[t] = 1
                  /\ ngets'[t] = ngets[t]
                  /\ pc'[t] \in {"returned", "raised"}]_vars

\* The second send of a call has failed and the call has ended.
C7_Witness ==
    \E t \in Tasks :
        /\ pc[t] = "raised"
        /\ nsends[t] = 2
        /\ discards[t] = 1

\* C8: under any sequence of requests and closings, _get_httpx_client never
\* returns a handle that is closed when it is returned, and never returns a
\* handle that has been observed closed.
C8_NeverReturnsClosedHandle ==
    [][\A t \in Tasks :
         ngets'[t] > ngets[t] =>
            /\ client'[t] /= 0
            /\ ~is_closed'[client'[t]]
            /\ client'[t] \notin seen_closed
            /\ client'[t] \notin seen_closed']_vars

\* A client has been obtained after a handle was observed closed.
C8_Witness ==
    \E t \in Tasks :
        /\ pc[t] = "resend"
        /\ seen_closed /= {}
        /\ ~is_closed[client[t]]
        /\ client[t] \notin seen_closed

\* C9: the teardown calls aclose on an open shared handle at most once and
\* never on a closed one, whether the two references name one object, two or
\* none; a teardown run that finds no open shared handle closes nothing.
C9_TeardownClosesOpenOnce ==
    [][/\ \A h \in Handles :
            aclose_calls'[h] /= aclose_calls[h] =>
               /\ ~is_closed[h]
               /\ is_closed'[h]
               /\ aclose_calls[h] = 0
               /\ aclose_calls'[h] = 1
       /\ (lifespan' /= lifespan /\ ~ModuleOpen /\ ~ServerOpen) =>
             (aclose_calls' = aclose_calls /\ is_closed' = is_closed)]_vars

\* The teardown has run twice over two references to one object, which it
\* closed once.
C9_Witness ==
    /\ lifespan = "stopped"
    /\ teardowns = 2
    /\ httpx_client /= 0
    /\ server_httpx_client = httpx_client
    /\ aclose_calls[httpx_client] = 1

\* C10: for every explicit key (absent, empty, non-empty) and default key
\* (absent, empty, non-empty) the request authenticates as "API_KEY" with the
\* explicit key when one is supplied and the default key otherwise, and the
\* API-key-required error is returned exactly when neither place holds a key.
C10_KeyResolution ==
    \A t \in Tasks :
        /\ pc[t] \in {"send", "resend"} =>
              cfg[t].auth = <<"API_KEY",
                              IF KeyPresent(req[t].api_key)
                              THEN req[t].api_key ELSE config_api_key>>
        /\ pc[t] \in {"send", "resend", "returned", "raised"} =>
              ((path[t] = "config") <=>
                  (~KeyPresent(req[t].api_key) /\ ~KeyPresent(config_api_key)))

\* C11: every request sent carries Accept: application/json; a body is sent
\* only for POST and PUT; and for every method and data present or absent the
\* Content-Type header is present if and only if a body is sent.
C11_ContentTypeIffBody ==
    [][\A t \in Tasks :
         (nsends'[t] > nsends[t] /\ ~is_closed[client[t]]) =>
            LET r == _send_request(req[t], cfg[t]) IN
            /\ "Accept" \in DOMAIN r.headers
            /\ r.headers["Accept"] = "application/json"
            /\ Len(r.content) > 0 => r.method \in {"POST", "PUT"}
            /\ ("Content-Type" \in DOMAIN r.headers) <=> (Len(r.content) > 0)]_vars

\* The status codes that have a text in the message table.
TableCodes == {401, 403, 404, 422, 429, 500, 503}

\* rec is the status-error record of resp: the status code of the response,
\* the table text for a code of the table (whatever the body), the raw
\* response text for every other code.
IsStatusRecord(rec, resp) ==
    /\ rec.type = "dict"
    /\ DOMAIN rec.items = {"error", "status_code", "message"}
    /\ rec.items.error = TRUE
    /\ rec.items.status_code = resp.status_code
    /\ resp.status_code \in TableCodes =>
          /\ rec.items.message = error_messages[resp.status_code]
          /\ Len(rec.items.message) > 0
    /\ resp.status_code \notin TableCodes =>
          rec.items.message = resp.content

\* C12 as stated: for every non-2xx response the record returned carries the
\* response's status code and, as message, the table text for 401, 403, 404,
\* 422, 429, 500, 503 and the raw response text for every other code.
C12_EveryNon2xx ==
    \A t \in Tasks :
        (/\ pc[t] = "returned"
         /\ response[t] /= NoResponse
         /\ ~IsSuccess(response[t].status_code)) =>
            IsStatusRecord(result[t], response[t])

\* C12 amended: the same for every non-2xx response whose body is empty or
\* valid JSON.
C12_Non2xxWithDecodableBody ==
    \A t \in Tasks :
        (/\ pc[t] = "returned"
         /\ response[t] /= NoResponse
         /\ ~IsSuccess(response[t].status_code)
         /\ JsonOk(response[t].content)) =>
            IsStatusRecord(result[t], response[t])

\* A status that is no known HTTP status has been answered with the raw
\* response text.
C12_Witness ==
    \E t \in Tasks :
        /\ pc[t] = "returned"
        /\ path[t] = "status"
        /\ response[t].status_code = 599
        /\ response[t].content = <<"{", "id", ":", "1", "}">>
        /\ result[t].items.status_code = 599
        /\ result[t].items.message = <<"{", "id", ":", "1", "}">>

\* text t starts with the lexemes p.
StartsWith(t, p) == Len(t) >= Len(p) /\ SubSeq(t, 1, Len(p)) = p

\* The ways a send fails at the transport level (httpx.RequestError:
\* timeouts, connection and DNS failures).
TransportFaults == [kind : {"RequestError"}, text : RequestErrorTexts]

\* C20: a send that times out or fails at the transport level makes the call
\* return an error record whose message starts with "Request error:" and
\* which has no status_code, and it triggers no retry: the call ends with
\* that send, the client is neither discarded nor obtained again.
C20_TransportFaultReturned ==
    [][\A t \in Tasks, o \in TransportFaults :
         (/\ Send(t, o) \/ Resend(t, o)
          /\ ~is_closed[client[t]]) =>
            /\ pc'[t] = "returned"
            /\ result'[t].type = "dict"
            /\ DOMAIN result'[t].items = {"error", "message"}
            /\ result'[t].items.error = TRUE
            /\ StartsWith(result'[t].items.message, RequestErrorPrefix)
            /\ result'[t].items.message = RequestErrorPrefix \o o.text
            /\ nsends'[t] = nsends[t] + 1
            /\ ngets'[t] = ngets[t]
            /\ discards'[t] = discards[t]
            /\ UNCHANGED <<httpx_client, server_httpx_client, nhandles>>]_vars

\* A first send has failed at the transport level and the call has returned
\* the request-error record.
C20_Witness ==
    \E t \in Tasks :
        /\ pc[t] = "returned"
        /\ path[t] = "request"
        /\ nsends[t] = 1
        /\ discards[t] = 0
        /\ result[t] = ErrorDict(<<"Request", "error", ":", "All",
                                   "connection", "attempts", "failed">>)

\* C13: whenever the client returns an error record to get_events or
\* get_event_by_id, the handler returns a string that starts with "Error
\* fetching" and contains the record's message, and no formatter is applied
\* to the record.
C13_ErrorRecordNotFormatted ==
    [][(/\ hpc = "awaiting"
        /\ hpc' = "done"
        /\ pc["t1"] = "returned"
        /\ path["t1"] \in ErrorPaths) =>
           /\ StartsWith(output', <<"Error", "fetching">>)
           /\ Contains(output', result["t1"].items.message)
           /\ Len(output') > Len(result["t1"].items.message)
           /\ formatted' = << >>]_vars

\* get_event_by_id has answered the decode-error record of the client with
\* its error string.
C13_Witness ==
    /\ hpc = "done"
    /\ tool = "get_event_by_id"
    /\ ncalls = 1
    /\ output = <<"Error", "fetching", "event", "details", ":">>
                   \o InvalidJsonMsg
    /\ formatted = << >>

\* C14: with neither an explicit nor a default athlete ID, get_events and
\* get_event_by_id return the error string of resolve_athlete_id and make no
\* call to make_intervals_request; with an explicit athlete ID, it, and not
\* the default, is the one in the request path.
C14_AthleteIdResolution ==
    tool \in DefinedTools =>
        /\ (~Truthy(args.athlete_id) /\ ~Truthy(config_athlete_id)) =>
              /\ hpc = "done"
              /\ output = resolve_athlete_id(args.athlete_id,
                                             config_athlete_id).error_msg
              /\ Len(output) > 0
              /\ ncalls = 0
              /\ url = << >>
              /\ pc["t1"] = "idle"
        /\ Truthy(args.athlete_id) =>
              /\ ncalls = 1
              /\ url[1] = "/athlete/"
              /\ url[2] = args.athlete_id
              /\ url[2] /= config_athlete_id

\* get_events has been called with an explicit athlete ID while another one
\* is the default, and has requested the events of the explicit one.
C14_Witness ==
    /\ tool = "get_events"
    /\ hpc = "done"
    /\ args.athlete_id = "i2"
    /\ config_athlete_id = "i1"
    /\ ncalls = 1
    /\ url = <<"/athlete/", "i2", "/events">>

\* The characters 0 to 9 and their values.
DigitValue ==
    [c \in {"0", "1", "2", "3", "4", "5", "6", "7", "8", "9"} |->
        CASE c = "0" -> 0 [] c = "1" -> 1 [] c = "2" -> 2 [] c = "3" -> 3
          [] c = "4" -> 4 [] c = "5" -> 5 [] c = "6" -> 6 [] c = "7" -> 7
          [] c = "8" -> 8 [] c = "9" -> 9]

\* s is a YYYY-MM-DD date: four digits, two digits of a month, two digits of
\* a day, separated by "-".
IsYMD(s) ==
    /\ Len(s) = 10
    /\ s[5] = "-" /\ s[8] = "-"
    /\ \A i \in {1, 2, 3, 4, 6, 7, 9, 10} : s[i] \in DOMAIN DigitValue
    /\ LET month == 10 * DigitValue[s[6]] + DigitValue[s[7]]
           day == 10 * DigitValue[s[9]] + DigitValue[s[10]]
       IN month \in 1..12 /\ day \in 1..31

\* C15: get_events called with a start_date or an end_date that is not a
\* YYYY-MM-DD date returns an error string and makes no call to
\* make_intervals_request, and no malformed date reaches the remote API as
\* the oldest or newest parameter.
C15_DatesValidatedBeforeRequest ==
    tool = "get_events" =>
        /\ (\/ TruthyText(args.start_date) /\ ~IsYMD(args.start_date)
            \/ TruthyText(args.end_date) /\ ~IsYMD(args.end_date)) =>
              /\ hpc = "done"
              /\ ncalls = 0
              /\ Len(output) > 0
        /\ ncalls > 0 => IsYMD(params.oldest) /\ IsYMD(params.newest)

\* The events of a list of event objects: every element is a dict.
IsEventList(v) ==
    /\ v.type = "list"
    /\ Len(v.elems) > 0
    /\ \A i \in 1..Len(v.elems) : v.elems[i].type = "dict"

\* The summaries of the events occur in out one after the other, in the
\* order of the list, each with the name of its event.
SummariesInOrder(out, events) ==
    \E at \in [1..Len(events) -> 1..Len(out)] :
        /\ \A i \in 1..Len(events) :
              LET summary == format_event_summary(events[i]) IN
              /\ at[i] + Len(summary) - 1 <= Len(out)
              /\ SubSeq(out, at[i], at[i] + Len(summary) - 1) = summary
              /\ "name" \in DOMAIN events[i].items =>
                    Contains(SubSeq(out, at[i], at[i] + Len(summary) - 1),
                             <<events[i].items.name.tok>>)
        /\ \A i, j \in 1..Len(events) :
              i < j => at[i] + Len(format_event_summary(events[i])) <= at[j]

\* C16: for every non-empty list of event objects returned by the client,
\* get_events returns text that starts with the header "Events:" and contains
\* the summary, with the name, of every event in list order; for an empty
\* result it returns the "No events found" message and no header.
C16_EventsListed ==
    [][(/\ hpc = "awaiting"
        /\ hpc' = "done"
        /\ tool = "get_events"
        /\ pc["t1"] = "returned"
        /\ path["t1"] = "json") =>
           /\ IsEventList(result["t1"]) =>
                 /\ StartsWith(output', <<"Events:">>)
                 /\ SummariesInOrder(output', result["t1"].elems)
                 /\ formatted' = result["t1"].elems
           /\ ~PyTruthy(result["t1"]) =>
                 /\ StartsWith(output', <<"No events found for athlete ">>)
                 /\ ~Contains(output', <<"Events:">>)
                 /\ formatted' = << >>]_vars

\* get_events has listed two events under the header, the named one first.
C16_Witness ==
    /\ hpc = "done"
    /\ tool = "get_events"
    /\ Len(formatted) = 2
    /\ output = <<"Events:", "\n\n", "Name:", "\"Test Event\"", "ID:", "1",
                  "\n\n", "Name:", "\"Race\"", "ID:", "N/A", "\n\n">>

\* C17: add_or_update_event issues exactly one request, a POST to
\* /athlete/{id}/events when called without event_id and a PUT to
\* /athlete/{id}/events/{event_id} when called with one, and returns text
\* that begins "Successfully created event:" or "Successfully updated
\* event:" for a non-empty JSON object, an error string or a "No events"
\* string else.
C17_CreateOrUpdateEvent ==
    tool = "add_or_update_event" =>
        /\ hpc /= "failed"
        /\ ncalls = 1
        /\ url = IF Truthy(args.event_id)
                 THEN <<"/athlete/",
                        resolve_athlete_id(args.athlete_id,
                                           config_athlete_id).id,
                        "/events", "/", args.event_id>>
                 ELSE <<"/athlete/",
                        resolve_athlete_id(args.athlete_id,
                                           config_athlete_id).id,
                        "/events">>
        /\ hpc = "awaiting" =>
              req["t1"].method = IF Truthy(args.event_id) THEN "PUT"
                                 ELSE "POST"
        /\ hpc = "done" =>
              \/ StartsWith(output,
                            IF Truthy(args.event_id)
                            THEN <<"Successfully updated event:">>
                            ELSE <<"Successfully created event:">>)
              \/ StartsWith(output, <<"Error">>)
              \/ StartsWith(output, <<"No events">>)

\* C18: delete_events_by_date_range first fetches the events of the range,
\* so it makes at least one request, and it returns a string: the error of
\* the fetch, or the report of the N-M deleted and M failed events.
C18_BatchDeleteReports ==
    tool = "delete_events_by_date_range" =>
        /\ hpc /= "failed"
        /\ ncalls >= 1
        /\ hpc = "done" =>
              \/ StartsWith(output, <<"Error">>)
              \/ StartsWith(output, <<"Deleted">>)

\* The workout types in the order the claim gives them.
InferredTypes == << <<"R", "i", "d", "e">>, <<"R", "u", "n">>, <<"S", "w", "i", "m">>,
                    <<"W", "a", "l", "k">>, <<"R", "o", "w">> >>

\* A keyword of the group of type i occurs in the lower-cased name.
KeywordOccurs(i, name) ==
    /\ TruthyText(name)
    /\ \E g \in 1..Len(mapping) :
          /\ mapping[g].workout = InferredTypes[i]
          /\ \E k \in 1..Len(mapping[g].keywords) :
                Contains(StrLower(name), mapping[g].keywords[k])

\* C19: _resolve_workout_type returns a supplied non-empty workout type
\* unchanged; with none supplied it returns the type of the first group, in
\* the order Ride, Run, Swim, Walk, Row, of which a keyword occurs in the
\* lower-cased name, and "Ride" when none occurs or the name is absent; a
\* name with swim keywords only gives "Swim", and the inferred type is always
\* one of the five.
C19_WorkoutTypeResolved ==
    event_data /= NoEventData =>
        LET n == event_data.name
            w == event_data.workout_type
            r == event_data.type
        IN /\ TruthyText(w) => r = w
           /\ ~TruthyText(w) =>
                 /\ \E i \in 1..5 : r = InferredTypes[i]
                 /\ \A i \in 1..5 :
                       (/\ KeywordOccurs(i, n)
                        /\ \A j \in 1..(i - 1) : ~KeywordOccurs(j, n)) =>
                          r = InferredTypes[i]
                 /\ (\A i \in 1..5 : ~KeywordOccurs(i, n)) =>
                       r = InferredTypes[1]
                 /\ (KeywordOccurs(3, n)
                       /\ \A i \in {1, 2, 4, 5} : ~KeywordOccurs(i, n)) =>
                       r = <<"S", "w", "i", "m">>

\* "Morning Swim" without a workout type has given "Swim".
C19_Witness ==
    /\ event_data.name = <<"M", "o", "r", "n", "i", "n", "g", " ", "S", "w", "i", "m">>
    /\ event_data.workout_type = NoneText
    /\ event_data.type = <<"S", "w", "i", "m">>

\* C21: under every interleaving of concurrent calls that switch at the
\* network suspension points only, a client is constructed only when no
\* shared reference points to an open handle (one construction per
\* missing-or-closed episode), and a call that obtains the client without
\* constructing one gets the open shared handle.
C21_OneClientPerEpisode ==
    [][\A t \in Tasks :
         ngets'[t] > ngets[t] =>
            IF nhandles' > nhandles
            THEN /\ ~ModuleOpen
                 /\ ~ServerOpen
                 /\ client'[t] = nhandles'
                 /\ httpx_client' = nhandles'
            ELSE /\ client'[t] \in {httpx_client, server_httpx_client}
                 /\ ~is_closed[client'[t]]
                 /\ nhandles' = nhandles]_vars

\* C23: whenever the module-level reference httpx_client is replaced or
\* reset, by _get_httpx_client or on the retry path, the handle it referred
\* to is closed already: no open client is dropped without being closed.
C23_ReplacedHandleIsClosed ==
    [][(httpx_client' /= httpx_client /\ httpx_client /= 0) =>
          is_closed[httpx_client]]_vars

\* C22: once the teardown of setup_api_client has completed, the client this
\* module constructed and still refers to is not open, whatever handler
\* invocations were in flight or started during or after the teardown.
C22_NoOpenClientAfterTeardown ==
    lifespan = "stopped" => ~ModuleOpen

\* C24: get_events and get_event_by_id report an error only when the client
\* returned an error record: a JSON value the client parsed from a 2xx
\* response, whatever its keys, is never answered with an "Error fetching"
\* string.
C24_SuccessNeverAnsweredAsError ==
    [][(/\ hpc = "awaiting"
        /\ hpc' = "done"
        /\ pc["t1"] = "returned"
        /\ path["t1"] = "json"
        /\ IsSuccess(response["t1"].status_code)) =>
           ~StartsWith(output', <<"Error", "fetching">>)]_vars

====
